---- MODULE Spec2Model ----
(***************************************************************************)
(* A model of the atomas detection-to-structure pipeline:                  *)
(*   - the CircularList of crates/atomas-core/src/ring/circularlist.rs     *)
(*     (insert, push, len, iter and the iterator's next), and              *)
(*   - the BBox / BBoxCollection of crates/atomas-cv/src/bbox.rs           *)
(*     (area, iou, overlaps, sort_by_confidence, apply_nms,                *)
(*     apply_class_nms, apply_global_nms).                                 *)
(*                                                                         *)
(* Three specifications share the module: Spec drives the circular list,   *)
(* SpecNms drives a box collection, SpecDetect drives a detection run      *)
(* (detect_from_mat of detection/detector.rs with its classify_detections, *)
(* then build_game_state of src/parser.rs).                                *)
(***************************************************************************)
EXTENDS Integers, Sequences, FiniteSets, TLC

(***************************************************************************)
(* Bounds of the model.                                                    *)
(***************************************************************************)
\* insert/push are offered while the list holds fewer than MaxLen nodes
MaxLen == 4
\* indexes passed to insert range over 0..MaxIndex (beyond the size as well)
MaxIndex == 5
\* the payloads a caller may store in the list
Values == {"W", "X", "Y", "Z"}

(***************************************************************************)
(* CircularList                                                            *)
(*                                                                         *)
(* A node handle Rc<RefCell<Node<T>>> is the node's position in the        *)
(* sequence of allocated nodes (1, 2, ... in allocation order); the        *)
(* Option of a handle is None or a position.                               *)
(***************************************************************************)
None == 0

\* Node { value, next, prev } as written by insert before linking
Node(value, next, prev) == [value |-> value, next |-> next, prev |-> prev]

\* CircularList::new
new == [head |-> None, size |-> 0, nodes |-> <<>>]

\* the loop of insert: `index` times  current = current.next
RECURSIVE Advance(_, _, _)
Advance(nodes, current, steps) ==
    IF steps = 0 THEN current
    ELSE Advance(nodes, nodes[current].next, steps - 1)

\* the cursor insert starts from head.next and moves index times
InsertCursor(list, index) ==
    Advance(list.nodes, list.nodes[list.head].next, index)

\* a splice that forgets to relink next.prev
SpliceNoBackLink(nodes, current, value) ==
    LET n    == Len(nodes) + 1
        next == nodes[current].next
        n1   == Append(nodes, Node(value, next, current))
    IN  [n1 EXCEPT ![current].next = n]

\* lines 44-50: link the new node between current and current.next
Splice(nodes, current, value) ==
    LET n    == Len(nodes) + 1
        next == nodes[current].next
        n1   == Append(nodes, Node(value, next, current))
        n2   == [n1 EXCEPT ![current].next = n]
    IN  [n2 EXCEPT ![next].prev = n]

\* an insert that makes the new node the head whatever the index
insertMovesHead(list, value, index) ==
    LET n == Len(list.nodes) + 1
    IN  IF list.head = None
        THEN [head  |-> n,
              size  |-> list.size + 1,
              nodes |-> Append(list.nodes, Node(value, n, n))]
        ELSE [head  |-> n,
              size  |-> list.size + 1,
              nodes |-> Splice(list.nodes, InsertCursor(list, index), value)]

\* CircularList::insert
insert(list, value, index) ==
    LET n == Len(list.nodes) + 1
    IN  IF list.head = None
        THEN [head  |-> n,
              size  |-> list.size + 1,
              nodes |-> Append(list.nodes, Node(value, n, n))]
        ELSE [head  |-> IF index = 0 THEN n ELSE list.head,
              size  |-> list.size + 1,
              nodes |-> Splice(list.nodes, InsertCursor(list, index), value)]

\* CircularList::len
len(list) == list.size

\* CircularList::is_empty
is_empty(list) == list.size = 0

\* CircularList::push
push(list, value) == insert(list, value, list.size)

(***************************************************************************)
(* CircularListIterator.  Option<T> is a sequence of at most one value.    *)
(***************************************************************************)
\* an iter that starts its revolution one node before the head
iterFromLast(list) ==
    IF list.head = None
    THEN [current |-> None, end |-> None, first |-> TRUE]
    ELSE [current |-> list.nodes[list.head].prev,
          end     |-> list.nodes[list.head].prev,
          first   |-> TRUE]

\* CircularList::iter
iter(list) == [current |-> list.head, end |-> list.head, first |-> TRUE]

\* an iterator that forgets to clear `first`
nextKeepsFirst(nodes, it) ==
    IF it.current = None
    THEN [it |-> it, item |-> <<>>]
    ELSE IF ~it.first /\ it.current = it.end
    THEN [it |-> it, item |-> <<>>]
    ELSE [it   |-> [it EXCEPT !.current = nodes[it.current].next],
          item |-> <<nodes[it.current].value>>]

\* CircularListIterator::next: the iterator afterwards and the item returned
next(nodes, it) ==
    IF it.current = None
    THEN [it |-> it, item |-> <<>>]
    ELSE IF ~it.first /\ it.current = it.end
    THEN [it |-> it, item |-> <<>>]
    ELSE [it   |-> [it EXCEPT !.current = nodes[it.current].next,
                              !.first = FALSE],
          item |-> <<nodes[it.current].value>>]

\* the values a fresh iterator yields until it returns None, giving up after
\* `fuel` items (a for loop or collect() over list.iter())
RECURSIVE Drain(_, _, _)
Drain(nodes, it, fuel) ==
    IF fuel = 0 THEN <<>>
    ELSE LET r == next(nodes, it)
         IN  IF r.item = <<>> THEN <<>>
             ELSE r.item \o Drain(nodes, r.it, fuel - 1)

\* list.iter().collect(), cut off one item past MaxLen + 1
Collect(list) == Drain(list.nodes, iter(list), MaxLen + 2)

(***************************************************************************)
(* State of the circular-list machine.                                     *)
(*   ring      the CircularList                                            *)
(*   call      the last call made on it, with its arguments and the list   *)
(*             it found                                                    *)
(*   ncalls    how many insert/push calls were made                        *)
(*   onlyPush  whether every call made so far was a push                   *)
(*   itr       the live iterator, or NoIter                                *)
(*   yielded   what the live iterator has returned so far                  *)
(*   finished  whether the live iterator has returned None                 *)
(* and of the box-collection machine (its operations follow further down). *)
(*   coll      the BBoxCollection's boxes                                  *)
(*   nmsCall   the last call made on it, with its arguments and the boxes  *)
(*             it found                                                    *)
(*   panicked  whether a call has panicked (the run is over)               *)
(* and of the detection run (detect_from_mat, then build_game_state).      *)
(*   catalog   Data.elements, the element catalog                          *)
(*   cfg       the detector's DetectionConfig                              *)
(*   frame     the size of the image                                       *)
(*   pairs     what the matcher has found so far, in the order found       *)
(*   stage     where the run stands                                        *)
(*   result    the DetectionResult, once detect_from_mat has returned      *)
(*   game      the GameState, once build_game_state has returned           *)
(*   attempt   inside detect_game_state: which of configs_to_try the loop  *)
(*             is at, one more than their number for the fallback; 0       *)
(*             outside                                                     *)
(*   tried     the detections detect_game_state has performed, in order:   *)
(*             the name of the configuration and the number of ring        *)
(*             elements found, -1 for an Err                               *)
(***************************************************************************)
VARIABLES ring, call, ncalls, onlyPush, itr, yielded, finished,
          coll, nmsCall, panicked,
          catalog, cfg, frame, pairs, stage, result, game, attempt, tried

ringVars == <<ring, call, ncalls, onlyPush, itr, yielded, finished>>
nmsVars == <<coll, nmsCall, panicked>>
detVars == <<catalog, cfg, frame, pairs, stage, result, game, attempt, tried>>

NoIter == [current |-> None, end |-> None, first |-> FALSE]

InitRing ==
    /\ ring = new
    /\ call = [op |-> "new"]
    /\ ncalls = 0
    /\ onlyPush = TRUE
    /\ itr = NoIter
    /\ yielded = <<>>
    /\ finished = FALSE

Iterating == itr # NoIter

\* ring.insert(value, index); the callers build the ring before they iterate
\* it (build_game_state), so no call changes the list under a live iterator
Insert(value, index) ==
    /\ ~Iterating
    /\ ring.size < MaxLen
    /\ ring' = insert(ring, value, index)
    /\ call' = [op |-> "insert", value |-> value, index |-> index, before |-> ring]
    /\ ncalls' = ncalls + 1
    /\ onlyPush' = FALSE
    /\ UNCHANGED <<itr, yielded, finished, nmsVars, detVars>>

\* ring.push(value)
Push(value) ==
    /\ ~Iterating
    /\ ring.size < MaxLen
    /\ ring' = push(ring, value)
    /\ call' = [op |-> "push", value |-> value, index |-> ring.size, before |-> ring]
    /\ ncalls' = ncalls + 1
    /\ UNCHANGED <<onlyPush, itr, yielded, finished, nmsVars, detVars>>

\* let it = ring.iter()
IterStart ==
    /\ ~Iterating
    /\ itr' = iter(ring)
    /\ yielded' = <<>>
    /\ finished' = FALSE
    /\ UNCHANGED <<ring, call, ncalls, onlyPush, nmsVars, detVars>>

\* it.next()
IterNext ==
    /\ Iterating
    /\ ~finished
    /\ Len(yielded) <= MaxLen + 1
    /\ LET r == next(ring.nodes, itr)
       IN  /\ itr' = r.it
           /\ yielded' = yielded \o r.item
           /\ finished' = (r.item = <<>>)
    /\ UNCHANGED <<ring, call, ncalls, onlyPush, nmsVars, detVars>>

\* the iterator goes out of scope
IterDrop ==
    /\ Iterating
    /\ finished
    /\ itr' = NoIter
    /\ yielded' = <<>>
    /\ finished' = FALSE
    /\ UNCHANGED <<ring, call, ncalls, onlyPush, nmsVars, detVars>>

NextRing ==
    \/ \E v \in Values, i \in 0..MaxIndex : Insert(v, i)
    \/ \E v \in Values : Push(v)
    \/ IterStart
    \/ IterNext
    \/ IterDrop

(***************************************************************************)
(* BBox and BBoxCollection                                                 *)
(*                                                                         *)
(* A confidence (f64) is kept in tenths: 9 is 0.9.  NaN is the one f64     *)
(* that partial_cmp cannot order.  A threshold and an IoU are fractions    *)
(* [num, den] with den > 0, compared by cross-multiplication.  The         *)
(* metadata map of a BBox is read by none of the operations below and is   *)
(* left out.                                                               *)
(***************************************************************************)
\* collections offered to the suppression hold at most MaxBoxes boxes
MaxBoxes == 3

NaN == -1

\* BBox::new(x, y, width, height, confidence).with_class(class_id, color)
BBox(x, y, width, height, confidence, class_id, color) ==
    [x |-> x, y |-> y, width |-> width, height |-> height,
     confidence |-> confidence, class_id |-> class_id, color |-> color]

Red == <<255, 0, 0>>
Green == <<0, 255, 0>>

\* the three boxes of tests::test_nms
TestA9 == BBox(0, 0, 10, 10, 9, "A", Red)
TestA8 == BBox(2, 2, 10, 10, 8, "A", Red)
TestB7 == BBox(20, 20, 10, 10, 7, "B", Green)
TestNmsInput == <<TestA9, TestA8, TestB7>>

\* the detections a matcher may hand over: the test's boxes, a box of the
\* other class lying over them, a third box of that confidence lying over the
\* second of the test but less over the other, a tie in confidence, a
\* zero-area box, a box of negative width and a box whose confidence is NaN
BoxPool ==
    { TestA9, TestA8, TestB7,
      BBox(1, 1, 10, 10, 8, "B", Green),
      BBox(3, 3, 10, 10, 8, "A", Red),
      BBox(0, 1, 10, 10, 9, "A", Red),
      BBox(0, 0, 0, 10, 8, "A", Red),
      BBox(5, 5, -10, 10, 7, "B", Green),
      BBox(20, 20, 10, 10, NaN, "B", Green) }

Frac(num, den) == [num |-> num, den |-> den]

\* the thresholds a caller may pass (f64), some outside [0, 1]
Thresholds ==
    { Frac(-1, 2), Frac(0, 1), Frac(1, 4), Frac(1, 2), Frac(1, 1), Frac(3, 2) }

Max(a, b) == IF a >= b THEN a ELSE b
Min(a, b) == IF a <= b THEN a ELSE b

\* BBox::area
area(b) == b.width * b.height

\* an IoU in the inclusive-pixel convention (a box of width w covers w + 1
\* columns), under which a box of zero width still has an extent
iouInclusive(a, b) ==
    LET x1 == Max(a.x, b.x)
        y1 == Max(a.y, b.y)
        x2 == Min(a.x + a.width, b.x + b.width)
        y2 == Min(a.y + a.height, b.y + b.height)
    IN  IF x2 < x1 \/ y2 < y1
        THEN Frac(0, 1)
        ELSE LET intersection == (x2 - x1 + 1) * (y2 - y1 + 1)
                 union        == (a.width + 1) * (a.height + 1)
                                 + (b.width + 1) * (b.height + 1) - intersection
             IN  Frac(intersection, union)

\* BBox::iou
iou(a, b) ==
    LET x1 == Max(a.x, b.x)
        y1 == Max(a.y, b.y)
        x2 == Min(a.x + a.width, b.x + b.width)
        y2 == Min(a.y + a.height, b.y + b.height)
    IN  IF x2 <= x1 \/ y2 <= y1
        THEN Frac(0, 1)
        ELSE LET intersection == (x2 - x1) * (y2 - y1)
                 union        == area(a) + area(b) - intersection
             IN  Frac(intersection, union)

\* f64 `>` on two fractions with positive denominators
Greater(p, q) == p.num * q.den > q.num * p.den

\* an overlap test that also fires when the IoU equals the threshold
overlapsOrEqual(a, b, threshold) == ~Greater(threshold, iou(a, b))

\* BBox::overlaps
overlaps(a, b, threshold) == Greater(iou(a, b), threshold)

\* b.confidence.partial_cmp(&a.confidence) is None
Unordered(a, b) == a.confidence = NaN \/ b.confidence = NaN

\* a compare that also says Greater for equal confidences
SortsAfterOrTied(a, b) == b.confidence >= a.confidence

\* the compare of sort_by_confidence says Greater: `a` must move behind `b`
SortsAfter(a, b) == b.confidence > a.confidence

\* an unstable placement: in front of the boxes of equal confidence
RECURSIVE InsertPosUnstable(_, _, _)
InsertPosUnstable(sorted, b, i) ==
    IF i > Len(sorted) THEN i
    ELSE IF ~SortsAfter(b, sorted[i]) THEN i
    ELSE InsertPosUnstable(sorted, b, i + 1)

\* where a stable sort puts `b` into a sorted prefix: behind every box that
\* does not sort after it
RECURSIVE InsertPos(_, _, _)
InsertPos(sorted, b, i) ==
    IF i > Len(sorted) THEN i
    ELSE IF SortsAfter(sorted[i], b) THEN i
    ELSE InsertPos(sorted, b, i + 1)

InsertAt(s, i, v) == SubSeq(s, 1, i - 1) \o <<v>> \o SubSeq(s, i, Len(s))

RECURSIVE StableSort(_, _)
StableSort(boxes, sorted) ==
    IF boxes = <<>> THEN sorted
    ELSE StableSort(Tail(boxes),
                    InsertAt(sorted, InsertPos(sorted, Head(boxes), 1), Head(boxes)))

\* a sort into ascending confidence
SortAscending(boxes) ==
    LET s == StableSort(boxes, <<>>)
    IN  [i \in 1..Len(s) |-> s[Len(s) + 1 - i]]

\* BBoxCollection::sort_by_confidence: slice::sort_by is stable, and its
\* compare unwraps partial_cmp, so it runs to the end only when no compare
\* meets a NaN
sort_by_confidence(boxes) == StableSort(boxes, <<>>)

\* sort_by compares every box of a slice of two or more at least once
SortPanics(boxes) ==
    /\ Len(boxes) >= 2
    /\ \E i \in 1..Len(boxes) : boxes[i].confidence = NaN

\* the inner loop of apply_nms for an accepted box i
Suppress(boxes, suppressed, i, threshold) ==
    [j \in 1..Len(boxes) |->
        IF j > i /\ ~suppressed[j] /\ overlaps(boxes[i], boxes[j], threshold)
        THEN TRUE
        ELSE suppressed[j]]

RECURSIVE Sweep(_, _, _, _, _)

\* a sweep that lets an accepted box suppress only the box right behind it
SweepNeighbour(boxes, suppressed, keep, i, threshold) ==
    LET near == [j \in 1..Len(boxes) |->
                    IF j = i + 1 /\ overlaps(boxes[i], boxes[j], threshold)
                    THEN TRUE ELSE suppressed[j]]
    IN  IF i > Len(boxes) THEN keep
        ELSE IF suppressed[i]
        THEN Sweep(boxes, suppressed, keep, i + 1, threshold)
        ELSE Sweep(boxes, near, Append(keep, boxes[i]), i + 1, threshold)

\* the outer loop of apply_nms from box i on
Sweep(boxes, suppressed, keep, i, threshold) ==
    IF i > Len(boxes) THEN keep
    ELSE IF suppressed[i]
    THEN Sweep(boxes, suppressed, keep, i + 1, threshold)
    ELSE Sweep(boxes, Suppress(boxes, suppressed, i, threshold),
               Append(keep, boxes[i]), i + 1, threshold)

\* BBoxCollection::apply_nms, when its sort does not panic
apply_nms(boxes, threshold) ==
    IF boxes = <<>> THEN boxes
    ELSE LET sorted == sort_by_confidence(boxes)
         IN  Sweep(sorted, [j \in 1..Len(sorted) |-> FALSE], <<>>, 1, threshold)

\* BBoxCollection::apply_global_nms
apply_global_nms(boxes, threshold) == apply_nms(boxes, threshold)

\* the Vec that class_groups holds under key class_id
ClassGroup(boxes, class_id) == SelectSeq(boxes, LAMBDA b : b.class_id = class_id)

ClassIds(boxes) == {boxes[i].class_id : i \in 1..Len(boxes)}

\* the orders in which a HashMap may hand out its keys
KeyOrders(keys) ==
    {o \in [1..Cardinality(keys) -> keys] : \A k \in keys : \E i \in DOMAIN o : o[i] = k}

RECURSIVE ConcatGroups(_, _, _)
ConcatGroups(boxes, order, threshold) ==
    IF order = <<>> THEN <<>>
    ELSE apply_nms(ClassGroup(boxes, Head(order)), threshold)
         \o ConcatGroups(boxes, Tail(order), threshold)

\* a class-aware NMS that forgets the grouping and sweeps all boxes at once
ClassNmsIgnoresClass(boxes, threshold, order) == apply_nms(boxes, threshold)

\* BBoxCollection::apply_class_nms with the HashMap iterating in `order`
apply_class_nms(boxes, threshold, order) == ConcatGroups(boxes, order, threshold)

\* some class group makes its sort panic
ClassNmsPanics(boxes) ==
    \E k \in ClassIds(boxes) : SortPanics(ClassGroup(boxes, k))

(***************************************************************************)
(* The box-collection machine.                                             *)
(***************************************************************************)
InitNms ==
    /\ coll = <<>>
    /\ nmsCall = [op |-> "new"]
    /\ panicked = FALSE

\* collection.push(bbox)
PushBox(b) ==
    /\ ~panicked
    /\ Len(coll) < MaxBoxes
    /\ coll' = Append(coll, b)
    /\ nmsCall' = [op |-> "push", box |-> b, input |-> coll]
    /\ UNCHANGED <<panicked, ringVars, detVars>>

\* collection = collection.apply_nms(threshold)
ApplyNms(threshold) ==
    /\ ~panicked
    /\ nmsCall' = [op |-> "apply_nms", threshold |-> threshold, input |-> coll]
    /\ UNCHANGED <<ringVars, detVars>>
    /\ IF SortPanics(coll)
       THEN panicked' = TRUE /\ coll' = <<>>
       ELSE panicked' = FALSE /\ coll' = apply_nms(coll, threshold)

\* collection = collection.apply_global_nms(threshold)
ApplyGlobalNms(threshold) ==
    /\ ~panicked
    /\ nmsCall' = [op |-> "apply_global_nms", threshold |-> threshold, input |-> coll]
    /\ UNCHANGED <<ringVars, detVars>>
    /\ IF SortPanics(coll)
       THEN panicked' = TRUE /\ coll' = <<>>
       ELSE panicked' = FALSE /\ coll' = apply_global_nms(coll, threshold)

\* collection = collection.apply_class_nms(threshold)
ApplyClassNms(threshold) ==
    /\ ~panicked
    /\ nmsCall' = [op |-> "apply_class_nms", threshold |-> threshold, input |-> coll]
    /\ UNCHANGED <<ringVars, detVars>>
    /\ IF ClassNmsPanics(coll)
       THEN panicked' = TRUE /\ coll' = <<>>
       ELSE /\ panicked' = FALSE
            /\ \E order \in KeyOrders(ClassIds(coll)) :
                   coll' = apply_class_nms(coll, threshold, order)

NextNms ==
    \/ \E b \in BoxPool : PushBox(b)
    \/ \E t \in Thresholds : ApplyNms(t)
    \/ \E t \in Thresholds : ApplyGlobalNms(t)
    \/ \E t \in Thresholds : ApplyClassNms(t)

(***************************************************************************)
(* GameStateDetector: detect_from_mat and classify_detections.             *)
(*                                                                         *)
(* An Element is its name.  A pair is (Element, BBox).  The f32 distances  *)
(* and angles are compared exactly: a distance by its square, an angle     *)
(* atan2(dy, dx) by the direction of (dx, dy), both on offsets taken twice *)
(* so that the half of an odd frame size stays an integer.                 *)
(***************************************************************************)
\* a match_template result is offered with at most MaxMatches scored
\* locations for each template
MaxMatches == 3

\* RingDetectionConfig::max_ring_elements of DetectionConfig::default
DefaultMaxRingElements == 18

\* TemplateConfig::max_detections_per_template of TemplateConfig::default
DefaultMaxDetections == 18

\* the color match_template_single_scale gives every box
White == <<255, 255, 255>>

\* the element catalogs try_load may return (an empty one too: a file with
\* no valid line loads as zero elements)
Catalogs == { <<>>, <<"H">>, <<"H", "He">>, <<"He", "H">> }

\* template.image.size() of the template of an element
TemplateSize(name) ==
    IF name = "H" THEN [width |-> 10, height |-> 11]
    ELSE [width |-> 10, height |-> 10]

\* one location of a match_template result with its score in tenths
Score(x, y, score) == [x |-> x, y |-> y, score |-> score]

\* the scored locations a match_template result may hold for a template:
\* at and near the centre of the frame, at distance 10 from it, two in the
\* same direction, straight above, straight left, one of NaN score, one of
\* a low score (a good match of the squared-difference methods)
ScorePool(name) ==
    IF name = "H"
    THEN { Score(45, 45, 9), Score(47, 46, 9), Score(55, 45, 8),
           Score(85, 85, 7), Score(65, 65, 8), Score(20, 20, NaN),
           Score(5, 5, 1) }
    ELSE { Score(46, 45, 8), Score(45, 5, 7), Score(5, 45, 6),
           Score(85, 85, 7) }

\* the results match_template may give for a template
ScoreMaps(name) == { m \in SUBSET ScorePool(name) : Cardinality(m) <= MaxMatches }

\* image.size()
Frames == { [width |-> 100, height |-> 100], [width |-> 120, height |-> 100] }

\* TemplateConfig: the fields match_single reads
TemplateConfig(threshold, is_inverted) ==
    [threshold                   |-> threshold,
     nms_threshold               |-> Frac(1, 5),
     max_detections_per_template |-> DefaultMaxDetections,
     is_inverted                 |-> is_inverted]

\* DetectionConfig: the fields detect_from_mat and classify_detections read
Config(template_config, center_tolerance, max_ring_elements) ==
    [template_config      |-> template_config,
     global_nms_threshold |-> Frac(1, 5),
     center_tolerance     |-> center_tolerance,
     max_ring_elements    |-> max_ring_elements]

\* DetectionConfig::default
DefaultConfig ==
    Config(TemplateConfig(Frac(65, 100), FALSE), Frac(1, 10), DefaultMaxRingElements)

\* DetectionConfig::for_uneven_lighting
for_uneven_lighting ==
    Config(TemplateConfig(Frac(55, 100), FALSE), Frac(1, 10), DefaultMaxRingElements)

\* DetectionConfig::with_sqdiff_laplacian
with_sqdiff_laplacian ==
    Config(TemplateConfig(Frac(15, 100), TRUE), Frac(1, 10), DefaultMaxRingElements)

\* DetectionConfig::with_edge_matching
with_edge_matching ==
    Config(TemplateConfig(Frac(60, 100), FALSE), Frac(1, 10), DefaultMaxRingElements)

\* the configurations a caller may build: the named ones, and the default
\* with other values in its public fields center_tolerance and
\* max_ring_elements
Configs ==
    {DefaultConfig, for_uneven_lighting, with_sqdiff_laplacian, with_edge_matching}
    \cup { Config(TemplateConfig(Frac(65, 100), FALSE), tol, m) :
             tol \in {Frac(0, 1), Frac(1, 10), Frac(1, 2)},
             m \in {0, 2, DefaultMaxRingElements} }

(***************************************************************************)
(* TemplateMatcher::match_single.                                          *)
(***************************************************************************)
\* the scan of the result rows and columns meets `a` before `b`
ScansBefore(a, b) == a.y < b.y \/ (a.y = b.y /\ a.x < b.x)

\* the locations of a result in the order of the scan
RECURSIVE ScanOrder(_)
ScanOrder(m) ==
    IF m = {} THEN <<>>
    ELSE LET first == CHOOSE a \in m : \A b \in m \ {a} : ScansBefore(a, b)
         IN  <<first>> \o ScanOrder(m \ {first})

\* confidence >= threshold, or confidence <= threshold for the inverted
\* methods; false for NaN either way
passes_threshold(score, template_config) ==
    /\ score # NaN
    /\ IF template_config.is_inverted
       THEN score * template_config.threshold.den <= 10 * template_config.threshold.num
       ELSE score * template_config.threshold.den >= 10 * template_config.threshold.num

\* 1.0 - confidence for the inverted methods
normalized_confidence(score, template_config) ==
    IF template_config.is_inverted THEN 10 - score ELSE score

\* match_template_single_scale: the boxes of the locations that pass
match_template_single_scale(m, name, template_config) ==
    LET passing == SelectSeq(ScanOrder(m),
                             LAMBDA a : passes_threshold(a.score, template_config))
    IN  [i \in 1..Len(passing) |->
            BBox(passing[i].x, passing[i].y,
                 TemplateSize(name).width, TemplateSize(name).height,
                 normalized_confidence(passing[i].score, template_config),
                 name, White)]

\* BBoxCollection::filter_by_confidence
filter_by_confidence(boxes, threshold) ==
    SelectSeq(boxes, LAMBDA b : /\ b.confidence # NaN
                                /\ b.confidence * threshold.den >= 10 * threshold.num)

\* a truncate that cuts nothing
truncateNothing(s, n) == s

\* Vec::truncate
truncate(s, n) == SubSeq(s, 1, Min(Len(s), n))

\* match_single with the one scale factor of every TemplateConfig
match_single(m, name, template_config) ==
    truncate(apply_nms(filter_by_confidence(
                           match_template_single_scale(m, name, template_config),
                           template_config.threshold),
                       template_config.nms_threshold),
             template_config.max_detections_per_template)

\* the pairs the loop of detect_from_mat pushes for one element; the color
\* of the element is not kept, the box keeps the one the matcher gave it
ElementPairs(m, name, template_config) ==
    LET detections == match_single(m, name, template_config)
    IN  [i \in 1..Len(detections) |-> [element |-> name, bbox |-> detections[i]]]

\* element_bbox_pairs after the loop over elements_data.elements, `matches`
\* giving the match_template result of each element
RECURSIVE element_bbox_pairs(_, _, _)
element_bbox_pairs(data, matches, template_config) ==
    IF data = <<>> THEN <<>>
    ELSE ElementPairs(matches[Head(data)], Head(data), template_config)
         \o element_bbox_pairs(Tail(data), matches, template_config)

\* i32 division by 2, which truncates towards zero
Div2(n) == IF n >= 0 THEN n \div 2 ELSE -((-n) \div 2)

\* BBox::center
center(b) == [x |-> b.x + Div2(b.width), y |-> b.y + Div2(b.height)]

\* twice (bbox_center - (center_x, center_y))
Offset2(b, f) ==
    [dx |-> 2 * center(b).x - f.width, dy |-> 2 * center(b).y - f.height]

\* a test that also takes a box at exactly the radius for a candidate
IsPlayerCandidateInclusive(b, f, tolerance) ==
    LET o    == Offset2(b, f)
        side == Min(f.width, f.height)
    IN  /\ tolerance.num >= 0
        /\ (o.dx * o.dx + o.dy * o.dy) * tolerance.den * tolerance.den
             <= 4 * side * side * tolerance.num * tolerance.num

\* distance_from_center < max_center_distance, the radius being
\* min(width, height) * tolerance; no distance is below a radius <= 0
IsPlayerCandidate(b, f, tolerance) ==
    LET o    == Offset2(b, f)
        side == Min(f.width, f.height)
    IN  /\ tolerance.num > 0
        /\ (o.dx * o.dx + o.dy * o.dy) * tolerance.den * tolerance.den
             < 4 * side * side * tolerance.num * tolerance.num

\* where atan2(dy, dx) lies in (-pi, pi]: below the x axis, at 0 (the zero
\* vector too), above the x axis, at pi
Sector(o) ==
    IF o.dy < 0 THEN 1
    ELSE IF o.dy > 0 THEN 3
    ELSE IF o.dx >= 0 THEN 2
    ELSE 4

\* atan2(p.dy, p.dx) < atan2(q.dy, q.dx)
AngleLess(p, q) ==
    \/ Sector(p) < Sector(q)
    \/ /\ Sector(p) = Sector(q)
       /\ Sector(p) \in {1, 3}
       /\ p.dx * q.dy - p.dy * q.dx > 0

\* calculate_angle_from_center, the angle standing as the offset it is the
\* atan2 of
calculate_angle_from_center(b, f) == Offset2(b, f)

\* the compare of the ring sort says Less: a sorts before b
SortsBeforeByAngle(a, b, f) ==
    AngleLess(calculate_angle_from_center(a.bbox, f),
              calculate_angle_from_center(b.bbox, f))

\* an unstable placement: in front of the pairs of equal angle
RECURSIVE AnglePosUnstable(_, _, _, _)
AnglePosUnstable(sorted, p, i, f) ==
    IF i > Len(sorted) THEN i
    ELSE IF ~SortsBeforeByAngle(sorted[i], p, f) THEN i
    ELSE AnglePosUnstable(sorted, p, i + 1, f)

\* where the stable sort_by puts `p` into a sorted prefix: behind every pair
\* it does not sort before
RECURSIVE AnglePos(_, _, _, _)
AnglePos(sorted, p, i, f) ==
    IF i > Len(sorted) THEN i
    ELSE IF SortsBeforeByAngle(p, sorted[i], f) THEN i
    ELSE AnglePos(sorted, p, i + 1, f)

\* ring_elements.sort_by(...) of classify_detections
RECURSIVE SortByAngle(_, _, _)
SortByAngle(ps, sorted, f) ==
    IF ps = <<>> THEN sorted
    ELSE SortByAngle(Tail(ps),
                     InsertAt(sorted, AnglePos(sorted, Head(ps), 1, f), Head(ps)),
                     f)

\* the else branch pushing every pair, candidates too
RingMembersAll(ps, f, tolerance) == ps

\* the pairs the loop of classify_detections pushes to ring_elements
RingMembers(ps, f, tolerance) ==
    SelectSeq(ps, LAMBDA p : ~IsPlayerCandidate(p.bbox, f, tolerance))

\* the pairs the loop pushes to player_candidates
PlayerCandidates(ps, f, tolerance) ==
    SelectSeq(ps, LAMBDA p : IsPlayerCandidate(p.bbox, f, tolerance))

\* a fold that keeps the earlier of two candidates of equal confidence
RECURSIVE MaxByFoldFirst(_, _)
MaxByFoldFirst(best, rest) ==
    IF rest = <<>> THEN best
    ELSE IF best.bbox.confidence >= Head(rest).bbox.confidence
    THEN MaxByFoldFirst(best, Tail(rest))
    ELSE MaxByFoldFirst(Head(rest), Tail(rest))

\* the fold of Iterator::max_by: the later of two candidates unless the
\* earlier compares Greater
RECURSIVE MaxByFold(_, _)
MaxByFold(best, rest) ==
    IF rest = <<>> THEN best
    ELSE IF best.bbox.confidence > Head(rest).bbox.confidence
    THEN MaxByFold(best, Tail(rest))
    ELSE MaxByFold(Head(rest), Tail(rest))

\* a selection that takes the first candidate whatever its confidence
FirstCandidate(candidates) ==
    IF candidates = <<>> THEN <<>> ELSE <<Head(candidates)>>

\* player_candidates.into_iter().max_by(...): an Option
max_by(candidates) ==
    IF candidates = <<>> THEN <<>>
    ELSE <<MaxByFold(Head(candidates), Tail(candidates))>>

\* max_by compares every candidate once there are two, and its compare
\* unwraps partial_cmp
MaxByPanics(candidates) ==
    /\ Len(candidates) >= 2
    /\ \E i \in 1..Len(candidates) : candidates[i].bbox.confidence = NaN

\* classify_detections, when max_by does not panic: (ring_elements, player_atom)
classify_detections(ps, f, config) ==
    [ring_elements |->
        truncate(SortByAngle(RingMembers(ps, f, config.center_tolerance), <<>>, f),
                 config.max_ring_elements),
     player_atom   |-> max_by(PlayerCandidates(ps, f, config.center_tolerance))]

\* the boxes of all_detections before suppression
Boxes(ps) == [i \in 1..Len(ps) |-> ps[i].bbox]

\* detect_from_mat from the suppression on, when nothing panics; of
\* DetectionStats the counts are kept (avg_confidence and the elapsed time
\* are not)
detect_from_mat(ps, f, config) ==
    LET all_detections == apply_global_nms(Boxes(ps), config.global_nms_threshold)
        classified     == classify_detections(ps, f, config)
    IN  [ring_elements    |-> classified.ring_elements,
         player_atom      |-> classified.player_atom,
         all_detections   |-> all_detections,
         confidence_stats |->
            [total_detections  |-> Len(all_detections),
             ring_detections   |-> Len(classified.ring_elements),
             player_detections |-> IF classified.player_atom # <<>> THEN 1 ELSE 0]]

\* a sort of all_detections or the max_by of the candidates panics
DetectPanics(ps, f, config) ==
    \/ SortPanics(Boxes(ps))
    \/ MaxByPanics(PlayerCandidates(ps, f, config.center_tolerance))

(***************************************************************************)
(* build_game_state of src/parser.rs.  The adjacency matrix of GameState   *)
(* is not kept.                                                            *)
(***************************************************************************)
\* the for loop: ring.insert(element, ring.len()) for each ring element
RECURSIVE InsertAll(_, _)
InsertAll(list, elements) ==
    IF elements = <<>> THEN list
    ELSE InsertAll(insert(list, Head(elements).element, len(list)), Tail(elements))

\* build_game_state, when data.elements[0] exists
build_game_state(detection_result, data) ==
    [ring        |-> InsertAll(new, detection_result.ring_elements),
     player_atom |-> IF detection_result.player_atom # <<>>
                     THEN detection_result.player_atom[1].element
                     ELSE data[1],
     max_value   |-> 1,
     score       |-> 0]

\* data.elements[0] indexes an empty Vec
BuildPanics(data) == data = <<>>

(***************************************************************************)
(* The detection run.                                                      *)
(***************************************************************************)
NoResult == [ring_elements |-> <<>>, player_atom |-> <<>>, all_detections |-> <<>>,
             confidence_stats |-> [total_detections |-> 0, ring_detections |-> 0,
                                   player_detections |-> 0]]

NoGame == [ring |-> new, player_atom |-> "", max_value |-> 0, score |-> 0]

InitDet ==
    /\ catalog = <<>>
    /\ cfg = DefaultConfig
    /\ frame = [width |-> 0, height |-> 0]
    /\ pairs = <<>>
    /\ stage = "new"
    /\ result = NoResult
    /\ game = NoGame
    /\ attempt = 0
    /\ tried = <<>>

\* GameStateDetector::new(config), with the catalog and the image of the run
NewDetector(config, data, f) ==
    /\ stage = "new"
    /\ cfg' = config
    /\ catalog' = data
    /\ frame' = f
    /\ stage' = "ready"
    /\ UNCHANGED <<pairs, result, game, attempt, tried, ringVars, nmsVars>>

\* detect_from_mat: `matches` is what match_template finds for each element,
\* `io_ok` whether every call into the template loader, OpenCV and the
\* visualization returned Ok
DetectFromMat(matches, io_ok) ==
    /\ stage = "ready"
    /\ LET ps == element_bbox_pairs(catalog, matches, cfg.template_config)
       IN  /\ pairs' = ps
           /\ IF ~io_ok
              THEN stage' = "failed" /\ UNCHANGED result
              ELSE IF DetectPanics(ps, frame, cfg)
              THEN stage' = "detect_panicked" /\ UNCHANGED result
              ELSE stage' = "detected" /\ result' = detect_from_mat(ps, frame, cfg)
    /\ UNCHANGED <<catalog, cfg, frame, game, attempt, tried, ringVars, nmsVars>>

\* build_game_state(detection_result, data)
BuildGameState ==
    /\ stage = "detected"
    /\ IF BuildPanics(catalog)
       THEN stage' = "build_panicked" /\ UNCHANGED game
       ELSE stage' = "built" /\ game' = build_game_state(result, catalog)
    /\ UNCHANGED <<catalog, cfg, frame, pairs, result, attempt, tried, ringVars, nmsVars>>

NextDet ==
    \/ \E config \in Configs, data \in Catalogs, f \in Frames :
           NewDetector(config, data, f)
    \/ \E mH \in ScoreMaps("H"), mHe \in ScoreMaps("He"), io_ok \in BOOLEAN :
           DetectFromMat([name \in {"H", "He"} |-> IF name = "H" THEN mH ELSE mHe],
                         io_ok)
    \/ BuildGameState

(***************************************************************************)
(* detect_game_state of src/parser.rs.                                     *)
(***************************************************************************)
\* configs_to_try; `config` of detect_game_state is for_uneven_lighting with
\* the template and output directories every configuration is given
configs_to_try ==
    << [name |-> "Laplacian + CCoeff", config |-> for_uneven_lighting],
       [name |-> "Laplacian + SqDiff", config |-> with_sqdiff_laplacian],
       [name |-> "Edge-based",         config |-> with_edge_matching] >>

\* the least number of ring elements the loop takes for a reasonable result
ReasonableRing == 3

\* a match_template result for both templates
Matches(mH, mHe) == [name \in {"H", "He"} |-> IF name = "H" THEN mH ELSE mHe]

\* the match_template results offered to the detections of detect_game_state:
\* nothing; two ring members; three ring members; a player atom and three
\* ring members; three locations of low score, which only the inverted
\* method takes for matches
ParseMatches ==
    { Matches({}, {}),
      Matches({Score(85, 85, 7), Score(65, 65, 8)}, {}),
      Matches({Score(85, 85, 7), Score(65, 65, 8), Score(55, 45, 8)}, {}),
      Matches({Score(45, 45, 9)}, {Score(45, 5, 7), Score(5, 45, 6), Score(85, 85, 7)}),
      Matches({Score(5, 5, 1), Score(85, 85, 1), Score(65, 65, 1)}, {}) }

\* detect_game_state(input_image_path, data) is entered
DetectGameState(data, f) ==
    /\ stage = "new"
    /\ catalog' = data
    /\ frame' = f
    /\ attempt' = 1
    /\ stage' = "trying"
    /\ UNCHANGED <<cfg, pairs, result, game, tried, ringVars, nmsVars>>

\* GameStateDetector::new(config) and detector.detect_from_file, then, when
\* the result has `at_least` ring elements, build_game_state and the return;
\* `io_ok` is whether detect_from_file returned Ok: its Err is returned by
\* the `?`
Detect(name, config, matches, io_ok, at_least) ==
    LET ps == element_bbox_pairs(catalog, matches, config.template_config)
        r  == detect_from_mat(ps, frame, config)
    IN  /\ cfg' = config
        /\ IF ~io_ok
           THEN /\ stage' = "failed"
                /\ tried' = Append(tried, [name |-> name, rings |-> -1])
                /\ UNCHANGED <<pairs, result, game, attempt>>
           ELSE IF DetectPanics(ps, frame, config)
           THEN /\ stage' = "detect_panicked"
                /\ tried' = Append(tried, [name |-> name, rings |-> -1])
                /\ pairs' = ps
                /\ UNCHANGED <<result, game, attempt>>
           ELSE /\ pairs' = ps
                /\ result' = r
                /\ tried' = Append(tried, [name |-> name, rings |-> Len(r.ring_elements)])
                /\ IF Len(r.ring_elements) >= at_least
                   THEN /\ UNCHANGED attempt
                        /\ IF BuildPanics(catalog)
                           THEN stage' = "build_panicked" /\ UNCHANGED game
                           ELSE stage' = "built" /\ game' = build_game_state(r, catalog)
                   ELSE /\ attempt' = attempt + 1
                        /\ UNCHANGED <<stage, game>>
        /\ UNCHANGED <<catalog, frame, ringVars, nmsVars>>

\* one turn of the loop over configs_to_try
TryConfiguration(matches, io_ok) ==
    /\ stage = "trying"
    /\ attempt \in 1..Len(configs_to_try)
    /\ Detect(configs_to_try[attempt].name, configs_to_try[attempt].config,
              matches, io_ok, ReasonableRing)

\* after the loop: a detector of `config` again, a detection, and the game
\* state of whatever it finds
Fallback(matches, io_ok) ==
    /\ stage = "trying"
    /\ attempt = Len(configs_to_try) + 1
    /\ Detect("fallback", for_uneven_lighting, matches, io_ok, 0)

NextParse ==
    \/ \E data \in Catalogs, f \in Frames : DetectGameState(data, f)
    \/ \E matches \in ParseMatches, io_ok \in BOOLEAN : TryConfiguration(matches, io_ok)
    \/ \E matches \in ParseMatches, io_ok \in BOOLEAN : Fallback(matches, io_ok)

(***************************************************************************)
(* The specifications.                                                     *)
(***************************************************************************)
vars == <<ringVars, nmsVars, detVars>>

Init == InitRing /\ InitNms /\ InitDet

\* the circular list in use
Spec == Init /\ [][NextRing]_vars

\* a box collection in use
SpecNms == Init /\ [][NextNms]_vars

\* a detection run
SpecDetect == Init /\ [][NextDet]_vars

\* a run of detect_game_state
SpecParse == Init /\ [][NextParse]_vars

(***************************************************************************)
(* Properties of the circular list (checked under Spec).                   *)
(***************************************************************************)

\* C1: insert(value, index) with 0 <= index <= size inserts before the
\* element at position index: iteration afterwards yields old[0..index),
\* value, old[index..size).
C1_InsertBeforeIndex ==
    (call.op = "insert" /\ call.index <= call.before.size)
        => Collect(ring) = InsertAt(Collect(call.before), call.index + 1, call.value)

\* C2: after any number of pushes into an empty list and nothing else,
\* iteration from the head yields the values in exactly the push order (the
\* k-th allocated node holds the k-th value pushed).
C2_PushKeepsPushOrder ==
    onlyPush => Collect(ring) = [k \in 1..Len(ring.nodes) |-> ring.nodes[k].value]

\* C3: after any insert/push calls with any indexes the list is empty (no
\* head, size 0) or one cycle: head set, n.next.prev = n and n.prev.next = n
\* for every node, `size` next-steps from the head return to it and no fewer
\* do, head.prev is the node size-1 next-steps from the head; len() is the
\* number of calls made, so a populated list is never empty again.
C3_SingleCycle ==
    LET nodes == ring.nodes
        ids   == 1..Len(nodes)
    IN  /\ len(ring) = ncalls
        /\ Len(nodes) = ring.size
        /\ is_empty(ring) <=> (ncalls = 0)
        /\ is_empty(ring) => ring.head = None
        /\ ~is_empty(ring) =>
              /\ ring.head \in ids
              /\ \A n \in ids :
                    /\ nodes[n].next \in ids
                    /\ nodes[n].prev \in ids
                    /\ nodes[nodes[n].next].prev = n
                    /\ nodes[nodes[n].prev].next = n
              /\ Advance(nodes, ring.head, ring.size) = ring.head
              /\ \A k \in 1..(ring.size - 1) : Advance(nodes, ring.head, k) # ring.head
              /\ nodes[ring.head].prev = Advance(nodes, ring.head, ring.size - 1)

\* C3 witness: an insert whose index ran past the size of a list of two or
\* more nodes has gone through.
C3_WrappedInsertDone ==
    /\ call.op = "insert"
    /\ call.before.size >= 2
    /\ call.index > call.before.size
    /\ ring.size >= 3

\* C4: an iterator from iter() yields exactly len() values, the head's value
\* first and then each next node's, and then returns None (at once on an
\* empty list); it never yields the head twice.
C4_IterOneRevolution ==
    Iterating =>
        /\ Len(yielded) <= len(ring)
        /\ \A k \in 1..Len(yielded) :
              yielded[k] = ring.nodes[Advance(ring.nodes, ring.head, k - 1)].value
        /\ finished => Len(yielded) = len(ring)
        /\ (~finished /\ Len(yielded) = len(ring)) => next(ring.nodes, itr).item = <<>>
        /\ (~finished /\ Len(yielded) < len(ring)) => next(ring.nodes, itr).item # <<>>

\* C4 witness: an iterator over a list built with inserts has gone round
\* three or more nodes and returned None.
C4_IterExhausted ==
    /\ Iterating
    /\ finished
    /\ ~onlyPush
    /\ Len(yielded) >= 3

\* C5: insert with an index beyond the size fails and leaves the list as it
\* was.
C5_OutOfRangeInsertFails ==
    (call.op = "insert" /\ call.index > call.before.size) => ring = call.before

(***************************************************************************)
(* Properties of non-maximum suppression (checked under SpecNms).          *)
(***************************************************************************)

\* C6: no two distinct boxes left by apply_nms / apply_global_nms have
\* IoU > threshold, and no two distinct boxes of one class left by
\* apply_class_nms have.
C6_NmsMaxIoU ==
    ~panicked =>
        /\ nmsCall.op \in {"apply_nms", "apply_global_nms"} =>
              \A i, j \in 1..Len(coll) :
                  i # j => ~Greater(iou(coll[i], coll[j]), nmsCall.threshold)
        /\ nmsCall.op = "apply_class_nms" =>
              \A i, j \in 1..Len(coll) :
                  (i # j /\ coll[i].class_id = coll[j].class_id)
                      => ~Greater(iou(coll[i], coll[j]), nmsCall.threshold)

\* C6 witness: global NMS dropped a box and left two boxes that overlap,
\* though not above the threshold.
C6_OverlappingSurvivors ==
    /\ ~panicked
    /\ nmsCall.op = "apply_global_nms"
    /\ Len(coll) < Len(nmsCall.input)
    /\ \E i, j \in 1..Len(coll) : i # j /\ iou(coll[i], coll[j]).num > 0

\* C7: global NMS applied again to its own result, with the same threshold,
\* gives the same boxes in the same order.
C7_NmsIdempotent ==
    (~panicked /\ nmsCall.op \in {"apply_nms", "apply_global_nms"}) =>
        /\ ~SortPanics(coll)
        /\ apply_global_nms(coll, nmsCall.threshold) = coll

\* C7 witness: global NMS dropped a box and left two boxes of equal confidence.
C7_TiedSurvivors ==
    /\ ~panicked
    /\ nmsCall.op = "apply_global_nms"
    /\ Len(coll) < Len(nmsCall.input)
    /\ \E i, j \in 1..Len(coll) : i # j /\ coll[i].confidence = coll[j].confidence

\* C8: on a non-empty input the first box of apply_nms's result is the first
\* box of the input that has the maximum confidence.
C8_NmsKeepsMax ==
    (~panicked /\ nmsCall.op \in {"apply_nms", "apply_global_nms"}
               /\ nmsCall.input # <<>>) =>
        LET input == nmsCall.input
            best  == CHOOSE i \in 1..Len(input) :
                        /\ \A k \in 1..Len(input) :
                              input[k].confidence <= input[i].confidence
                        /\ \A k \in 1..(i - 1) :
                              input[k].confidence < input[i].confidence
        IN  /\ coll # <<>>
            /\ \A k \in 1..Len(input) : input[k].confidence <= coll[1].confidence
            /\ coll[1] = input[best]

\* C8 witness: apply_nms ran on three boxes the first of which was not the
\* most confident one.
C8_MaxNotFirstInInput ==
    /\ ~panicked
    /\ nmsCall.op = "apply_nms"
    /\ Len(nmsCall.input) >= 3
    /\ nmsCall.input[1].confidence < coll[1].confidence

\* C9: the result of NMS is a sub-collection of the input (no box more often
\* than in the input), every box dropped has IoU > threshold with a retained
\* box of at least its confidence, and an empty input gives an empty result
\* without a panic.
C9_NmsMaximalSubset ==
    nmsCall.op \in {"apply_nms", "apply_global_nms"} =>
        LET input == nmsCall.input
            t     == nmsCall.threshold
            Count(s, b) == Cardinality({i \in 1..Len(s) : s[i] = b})
        IN  /\ input = <<>> => (~panicked /\ coll = <<>>)
            /\ ~panicked =>
                  /\ \A i \in 1..Len(coll) :
                        Count(coll, coll[i]) <= Count(input, coll[i])
                  /\ \A i \in 1..Len(input) :
                        Count(coll, input[i]) < Count(input, input[i]) =>
                            \E j \in 1..Len(coll) :
                                /\ Greater(iou(coll[j], input[i]), t)
                                /\ coll[j].confidence >= input[i].confidence

\* C9 witness: apply_nms with threshold 1/2 dropped a box and kept two.
C9_DroppedAtHalf ==
    /\ ~panicked
    /\ nmsCall.op = "apply_nms"
    /\ nmsCall.threshold = Frac(1, 2)
    /\ Len(coll) >= 2
    /\ Len(coll) < Len(nmsCall.input)

\* C10: for the three boxes of test_nms and threshold 0.5, apply_nms returns
\* exactly A@0.9 and B@0.7, and so does per-class NMS.
C10_TestNmsKeepsTwo ==
    (~panicked /\ nmsCall.op \in {"apply_nms", "apply_class_nms"}
               /\ nmsCall.input = TestNmsInput
               /\ nmsCall.threshold = Frac(1, 2)) =>
        /\ nmsCall.op = "apply_nms" => coll = <<TestA9, TestB7>>
        /\ nmsCall.op = "apply_class_nms" =>
              /\ Len(coll) = 2
              /\ {coll[i] : i \in 1..Len(coll)} = {TestA9, TestB7}


\* C11: the boxes left by apply_class_nms are, class by class, the boxes
\* apply_nms leaves of that class alone, so a dropped box overlaps a retained
\* box of its own class above the threshold; apply_global_nms does not read
\* class_id: it leaves the same boxes as on the input with the classes erased.
C11_ClassNmsPerClassUnion ==
    LET input == nmsCall.input
        t     == nmsCall.threshold
        Count(s, b) == Cardinality({i \in 1..Len(s) : s[i] = b})
        Erase(s) == [i \in 1..Len(s) |-> [s[i] EXCEPT !.class_id = ""]]
    IN  ~panicked =>
          /\ nmsCall.op = "apply_class_nms" =>
                /\ \A i \in 1..Len(coll) : Count(input, coll[i]) > 0
                /\ \A i \in 1..Len(input) :
                      /\ Count(coll, input[i])
                           = Count(apply_nms(ClassGroup(input, input[i].class_id), t),
                                   input[i])
                      /\ Count(coll, input[i]) < Count(input, input[i]) =>
                            \E j \in 1..Len(coll) :
                                /\ coll[j].class_id = input[i].class_id
                                /\ Greater(iou(coll[j], input[i]), t)
          /\ nmsCall.op = "apply_global_nms" =>
                Erase(coll) = apply_global_nms(Erase(input), t)

\* C11 witness: per-class NMS kept a box that lies over a more confident box of
\* another class above the threshold, and dropped a box of its own class.
C11_KeptAcrossClasses ==
    /\ ~panicked
    /\ nmsCall.op = "apply_class_nms"
    /\ Len(coll) < Len(nmsCall.input)
    /\ \E i, j \in 1..Len(coll) :
          /\ coll[i].class_id # coll[j].class_id
          /\ coll[i].confidence > coll[j].confidence
          /\ Greater(iou(coll[i], coll[j]), nmsCall.threshold)

\* C12: a box of zero area has IoU 0 with every box, itself included; for a
\* threshold >= 0 NMS retains every such box and the other boxes fare as if
\* the zero-area boxes were not there.
C12_ZeroAreaInert ==
    LET input == nmsCall.input
        t     == nmsCall.threshold
        Zero(b) == b.width = 0 \/ b.height = 0
        Count(s, b) == Cardinality({i \in 1..Len(s) : s[i] = b})
    IN  (~panicked /\ nmsCall.op \in {"apply_nms", "apply_global_nms"}) =>
          /\ \A i, j \in 1..Len(input) :
                Zero(input[i]) =>
                    /\ iou(input[i], input[j]).num = 0
                    /\ iou(input[j], input[i]).num = 0
          /\ t.num >= 0 =>
                /\ \A i \in 1..Len(input) :
                      Zero(input[i]) => Count(coll, input[i]) = Count(input, input[i])
                /\ SelectSeq(coll, LAMBDA b : ~Zero(b))
                     = apply_nms(SelectSeq(input, LAMBDA b : ~Zero(b)), t)

\* C12 witness: NMS with threshold 0 ran on a collection holding the same
\* zero-area box twice and a box of positive area around them.
C12_ZeroAreaTwice ==
    /\ ~panicked
    /\ nmsCall.op = "apply_nms"
    /\ nmsCall.threshold = Frac(0, 1)
    /\ \E i, j, k \in 1..Len(nmsCall.input) :
          /\ i # j
          /\ nmsCall.input[i] = nmsCall.input[j]
          /\ nmsCall.input[i].width = 0
          /\ nmsCall.input[k].x <= nmsCall.input[i].x
          /\ nmsCall.input[k].width > 0

\* C13: a threshold outside [0, 1] is rejected: such a call returns no
\* suppressed collection.
C13_ThresholdOutOfRangeRejected ==
    (nmsCall.op \in {"apply_nms", "apply_global_nms", "apply_class_nms"}
        /\ (nmsCall.threshold.num < 0
            \/ nmsCall.threshold.num > nmsCall.threshold.den))
        => panicked

\* C14: no box of negative width or height or of NaN confidence is ever in the
\* collection, and no call on the collection panics.
C14_MalformedDropped ==
    /\ \A i \in 1..Len(coll) :
          /\ coll[i].width >= 0
          /\ coll[i].height >= 0
          /\ coll[i].confidence # NaN
    /\ ~panicked


\* C15: classify_detections makes a pair a centre candidate exactly when the
\* distance of its box centre from (W/2, H/2) is strictly below
\* center_tolerance * min(W, H): a candidate is never returned as a ring
\* member and a player atom is returned for it; every other pair, one at
\* exactly the radius too, is a ring member (all of them are returned when
\* they are no more than max_ring_elements).  In a 100x100 frame with
\* tolerance 0.1 a box centred at (50,50) is a candidate, boxes centred at
\* (90,90) and (60,50) are ring members.
C15_StrictRadiusTest ==
    LET tol  == cfg.center_tolerance
        side == IF frame.width < frame.height THEN frame.width ELSE frame.height
        cx2(p) == 2 * (p.bbox.x + p.bbox.width \div 2)
        cy2(p) == 2 * (p.bbox.y + p.bbox.height \div 2)
        \* (2 * distance)^2 * den^2 < (2 * min(W, H))^2 * num^2
        Within(p) ==
            /\ tol.num > 0
            /\ ((cx2(p) - frame.width) * (cx2(p) - frame.width)
                  + (cy2(p) - frame.height) * (cy2(p) - frame.height))
                 * tol.den * tol.den
               < 4 * side * side * tol.num * tol.num
        InRing(p) == \E j \in 1..Len(result.ring_elements) : result.ring_elements[j] = p
        outside == {i \in 1..Len(pairs) : ~Within(pairs[i])}
        Scenario == /\ frame = [width |-> 100, height |-> 100]
                    /\ tol.num * 10 = tol.den
        CentredAt(p, x, y) == cx2(p) = 2 * x /\ cy2(p) = 2 * y
    IN  stage \in {"detected", "built", "build_panicked"} =>
          \A i \in 1..Len(pairs) :
              /\ Within(pairs[i]) =>
                    ~InRing(pairs[i]) /\ result.player_atom # <<>>
              /\ (~Within(pairs[i]) /\ Cardinality(outside) <= cfg.max_ring_elements)
                    => InRing(pairs[i])
              /\ (Scenario /\ CentredAt(pairs[i], 50, 50)) => Within(pairs[i])
              /\ (Scenario /\ (CentredAt(pairs[i], 90, 90) \/ CentredAt(pairs[i], 60, 50)))
                    => ~Within(pairs[i])

\* C15 witness: in a 100x100 frame with tolerance 0.1 the classifier saw boxes
\* centred at (50,50), at (90,90) and at (60,50), which is exactly the radius
\* away; the first became the player atom, the other two ring members.
C15_ScenarioClassified ==
    /\ stage = "detected"
    /\ frame = [width |-> 100, height |-> 100]
    /\ cfg.center_tolerance = Frac(1, 10)
    /\ result.player_atom # <<>>
    /\ center(result.player_atom[1].bbox) = [x |-> 50, y |-> 50]
    /\ \E i, j \in 1..Len(result.ring_elements) :
          /\ center(result.ring_elements[i].bbox) = [x |-> 90, y |-> 90]
          /\ center(result.ring_elements[j].bbox) = [x |-> 60, y |-> 50]

\* C16: when there is a centre candidate, the player atom returned is one
\* candidate, its confidence is the maximum over the candidates, and the choice
\* among candidates of maximal confidence is fixed by the input list: the one
\* latest in it.
C16_PlayerIsMaxCandidate ==
    LET tol == cfg.center_tolerance
        cands == {i \in 1..Len(pairs) : IsPlayerCandidate(pairs[i].bbox, frame, tol)}
        best  == {i \in cands :
                     \A j \in cands : pairs[j].bbox.confidence <= pairs[i].bbox.confidence}
    IN  (stage \in {"detected", "built", "build_panicked"} /\ cands # {}) =>
          /\ Len(result.player_atom) = 1
          /\ \E i \in best :
                /\ result.player_atom[1] = pairs[i]
                /\ \A j \in best : j <= i

\* C16 witness: the classifier chose between two candidates of the same,
\* maximal confidence and a third of lower confidence listed before one of
\* them.
C16_TiedCandidates ==
    /\ stage = "detected"
    /\ result.player_atom # <<>>
    /\ \E i, j, k \in 1..Len(pairs) :
          /\ i < j /\ j < k
          /\ \A n \in {i, j, k} :
                IsPlayerCandidate(pairs[n].bbox, frame, cfg.center_tolerance)
          /\ pairs[i].bbox.confidence = result.player_atom[1].bbox.confidence
          /\ pairs[k].bbox.confidence = result.player_atom[1].bbox.confidence
          /\ pairs[j].bbox.confidence < result.player_atom[1].bbox.confidence
          /\ pairs[i] # pairs[k]

\* C17: no centre candidate, chosen or dropped, is among the ring members
\* returned; when the pairs that are no candidates number at most
\* max_ring_elements, every input pair is in exactly one of the ring members,
\* the chosen centre and the dropped candidates, whose counts add up to the
\* size of the input.
C17_ClassifierPartition ==
    LET tol == cfg.center_tolerance
        members == result.ring_elements
        Count(s, p) == Cardinality({i \in 1..Len(s) : s[i] = p})
        Cand(p) == IsPlayerCandidate(p.bbox, frame, tol)
        cands == {i \in 1..Len(pairs) : Cand(pairs[i])}
        chosen == Len(result.player_atom)
        dropped == IF cands = {} THEN 0 ELSE Cardinality(cands) - 1
    IN  stage \in {"detected", "built", "build_panicked"} =>
          /\ \A j \in 1..Len(members) : ~Cand(members[j]) /\ Count(pairs, members[j]) > 0
          /\ chosen = 1 => Cand(result.player_atom[1])
          /\ Len(pairs) - Cardinality(cands) <= cfg.max_ring_elements =>
                /\ \A i \in 1..Len(pairs) :
                      Count(members, pairs[i])
                        = IF Cand(pairs[i]) THEN 0 ELSE Count(pairs, pairs[i])
                /\ Len(members) + chosen + dropped = Len(pairs)

\* C17 witness: the classifier returned ring members, a player atom and dropped
\* at least one candidate, nothing being cut by max_ring_elements.
C17_AllThreeParts ==
    /\ stage = "detected"
    /\ Len(result.ring_elements) >= 2
    /\ Len(result.player_atom) = 1
    /\ Len(result.ring_elements) + 2 <= Len(pairs)
    /\ Len(result.ring_elements) < cfg.max_ring_elements


\* C18: classify_detections returns no player atom exactly when no input pair
\* lies within the radius, and build_game_state completes on every detection
\* result without a player atom, whatever the element catalog, with a fallback
\* player atom.
C18_NoPlayerNotFatal ==
    LET NoCandidate ==
            \A i \in 1..Len(pairs) :
                ~IsPlayerCandidate(pairs[i].bbox, frame, cfg.center_tolerance)
    IN  /\ stage \in {"detected", "built", "build_panicked"} =>
              (result.player_atom = <<>> <=> NoCandidate)
        /\ (stage \in {"built", "build_panicked"} /\ result.player_atom = <<>>) =>
              /\ stage = "built"
              /\ game.player_atom = catalog[1]

\* C19: the ring members returned are in non-decreasing order of the angle
\* atan2(dy, dx) of their box centre around the frame centre; members of equal
\* angle are in their input order; ordering the returned sequence once more
\* leaves it as it is.
C19_RingSortedStable ==
    LET members == result.ring_elements
        Angle(p) == calculate_angle_from_center(p.bbox, frame)
        SameAngle(p, q) == ~AngleLess(Angle(p), Angle(q)) /\ ~AngleLess(Angle(q), Angle(p))
        input == SelectSeq(pairs, LAMBDA p :
                     ~IsPlayerCandidate(p.bbox, frame, cfg.center_tolerance))
        Tied(s, p) == SelectSeq(s, LAMBDA q : SameAngle(p, q))
    IN  stage \in {"detected", "built", "build_panicked"} =>
          /\ \A i, j \in 1..Len(members) :
                i < j => ~AngleLess(Angle(members[j]), Angle(members[i]))
          /\ \A j \in 1..Len(members) :
                Tied(members, members[j])
                  = SubSeq(Tied(input, members[j]), 1, Len(Tied(members, members[j])))
          /\ SortByAngle(members, <<>>, frame) = members

\* C19 witness: the classifier returned three or more ring members in another
\* order than it was given them, two of them at the same angle.
C19_TiedAndReordered ==
    LET members == result.ring_elements
        Angle(p) == calculate_angle_from_center(p.bbox, frame)
    IN  /\ stage = "detected"
        /\ Len(members) >= 3
        /\ \E a, b \in 1..Len(members) :
              /\ a < b
              /\ members[a] # members[b]
              /\ ~AngleLess(Angle(members[a]), Angle(members[b]))
              /\ ~AngleLess(Angle(members[b]), Angle(members[a]))
        /\ \E a, b \in 1..Len(members), i, j \in 1..Len(pairs) :
              /\ a < b /\ i < j
              /\ members[a] = pairs[j]
              /\ members[b] = pairs[i]

\* C20: the ring sequence returned does not depend on the order of the input
\* list: had the catalog listed the same elements in another order, so that
\* the same pairs were given to classify_detections in another order, the ring
\* members returned would be the same sequence.
C20_OrderIndependent ==
    LET Of(name) == SelectSeq(pairs, LAMBDA p : p.element = name)
        Regrouped(data) ==
            IF Len(data) = 2 THEN Of(data[1]) \o Of(data[2])
            ELSE IF Len(data) = 1 THEN Of(data[1])
            ELSE <<>>
        SameElements(data) ==
            /\ Len(data) = Len(catalog)
            /\ {data[i] : i \in 1..Len(data)} = {catalog[i] : i \in 1..Len(catalog)}
    IN  stage \in {"detected", "built", "build_panicked"} =>
          \A data \in Catalogs :
              SameElements(data) =>
                  classify_detections(Regrouped(data), frame, cfg).ring_elements
                    = result.ring_elements


\* C21: the ring returned never has more than max_ring_elements entries; it is
\* the angle-sorted sequence of the ring members when they are no more than
\* that, and its first max_ring_elements entries when they are more; with
\* max_ring_elements = 0 the ring is empty.
C21_RingTruncated ==
    LET members == result.ring_elements
        sorted  == SortByAngle(RingMembers(pairs, frame, cfg.center_tolerance),
                               <<>>, frame)
        limit   == cfg.max_ring_elements
    IN  stage \in {"detected", "built", "build_panicked"} =>
          /\ Len(members) <= limit
          /\ Len(members) = IF Len(sorted) <= limit THEN Len(sorted) ELSE limit
          /\ \A j \in 1..Len(members) : members[j] = sorted[j]
          /\ limit = 0 => members = <<>>

\* C21 witness: more ring members than max_ring_elements = 2 were found, at
\* three different angles, and two were returned.
C21_RingCutToTwo ==
    LET outside == SelectSeq(pairs, LAMBDA p :
                       ~IsPlayerCandidate(p.bbox, frame, cfg.center_tolerance))
    IN  /\ stage = "detected"
        /\ cfg.max_ring_elements = 2
        /\ Len(outside) >= 3
        /\ Len(result.ring_elements) = 2
        /\ \E i, j, k \in 1..Len(outside) :
              /\ AngleLess(Offset2(outside[i].bbox, frame), Offset2(outside[j].bbox, frame))
              /\ AngleLess(Offset2(outside[j].bbox, frame), Offset2(outside[k].bbox, frame))

\* C22: in every DetectionResult the box of every ring element and the box of
\* the player atom is one of all_detections, the boxes global NMS left.
C22_ClassifiedSurvivedNms ==
    LET Survived(b) ==
            \E i \in 1..Len(result.all_detections) : result.all_detections[i] = b
    IN  stage \in {"detected", "built", "build_panicked"} =>
          /\ \A j \in 1..Len(result.ring_elements) :
                Survived(result.ring_elements[j].bbox)
          /\ result.player_atom # <<>> => Survived(result.player_atom[1].bbox)

\* C23: build_game_state leaves a CircularList of as many nodes as there are
\* ring elements, and iterating it from the head yields their elements in the
\* order of the ring elements.
C23_GameRingInRingOrder ==
    LET members == result.ring_elements
    IN  stage = "built" =>
          /\ len(game.ring) = Len(members)
          /\ Drain(game.ring.nodes, iter(game.ring), Len(members) + 1)
               = [j \in 1..Len(members) |-> members[j].element]


\* C24: iteration reads the list and does not change it: a step that creates,
\* advances or drops an iterator leaves head, size and every node as they
\* were; and however far a live iterator has got, a fresh iter() yields the
\* complete sequence, size values starting with the value at the head, the
\* same one the live iterator yields in all.
C24_IterationReadOnly ==
    /\ [][(itr' # itr \/ yielded' # yielded \/ finished' # finished)
            => ring' = ring]_vars
    /\ [](LET fresh == Drain(ring.nodes, iter(ring), ring.size + 1)
          IN  /\ Len(fresh) = ring.size
              /\ ring.size > 0 => fresh[1] = ring.nodes[ring.head].value
              /\ (Iterating /\ finished) => fresh = yielded
              /\ (Iterating /\ ~finished) =>
                    fresh = yielded \o Drain(ring.nodes, itr, ring.size + 1))

\* C24 witness: an iterator over a list of three or more values, not all the
\* same, has yielded some of them and not yet all.
C24_IteratorMidway ==
    /\ Iterating
    /\ ring.size >= 3
    /\ Len(yielded) >= 1
    /\ Len(yielded) < ring.size
    /\ \E i, j \in 1..Len(ring.nodes) : ring.nodes[i].value # ring.nodes[j].value


\* C25 as stated: sort_by_confidence is a stable sort into descending
\* confidence and NMS goes through the boxes in that order: of two boxes of
\* equal confidence with IoU above the threshold, neither suppressed by a box
\* of higher confidence, the earlier in the input is retained and the later is
\* suppressed; the result of apply_nms is in descending order of confidence.
\* (The boxes carry their input position in the color field, which no
\* operation of NMS reads, so that the positions retained can be told.)
C25_EarlierOfTiedKept ==
    LET input  == nmsCall.input
        t      == nmsCall.threshold
        tagged == [i \in 1..Len(input) |-> [input[i] EXCEPT !.color = i]]
        out    == apply_nms(tagged, t)
        kept   == {out[k].color : k \in 1..Len(out)}
        ByHigher(i) == \E k \in kept :
                           /\ input[k].confidence > input[i].confidence
                           /\ Greater(iou(input[k], input[i]), t)
    IN  (~panicked /\ nmsCall.op = "apply_nms") =>
          /\ coll = [k \in 1..Len(out) |-> input[out[k].color]]
          /\ \A p, q \in 1..Len(coll) : p < q => coll[p].confidence >= coll[q].confidence
          /\ \A i, j \in 1..Len(input) :
                (/\ i < j
                 /\ input[i].confidence = input[j].confidence
                 /\ Greater(iou(input[i], input[j]), t)
                 /\ ~ByHigher(i)
                 /\ ~ByHigher(j))
                => (i \in kept /\ j \notin kept)

\* C25 amended: the same, for two boxes the earlier of which is suppressed by
\* no retained box ahead of it in the sorted order, be that a box of higher
\* confidence or a box of the same confidence earlier in the input; and boxes
\* of equal confidence are retained in their input order.
C25_EarlierUnsuppressedKept ==
    LET input  == nmsCall.input
        t      == nmsCall.threshold
        tagged == [i \in 1..Len(input) |-> [input[i] EXCEPT !.color = i]]
        out    == apply_nms(tagged, t)
        kept   == {out[k].color : k \in 1..Len(out)}
        ByHigher(i) == \E k \in kept :
                           /\ input[k].confidence > input[i].confidence
                           /\ Greater(iou(input[k], input[i]), t)
        ByEarlierTied(i) == \E k \in kept :
                                /\ k < i
                                /\ input[k].confidence = input[i].confidence
                                /\ Greater(iou(input[k], input[i]), t)
    IN  (~panicked /\ nmsCall.op = "apply_nms") =>
          /\ coll = [k \in 1..Len(out) |-> input[out[k].color]]
          /\ \A p, q \in 1..Len(out) :
                p < q =>
                    /\ out[p].confidence >= out[q].confidence
                    /\ out[p].confidence = out[q].confidence => out[p].color < out[q].color
          /\ \A i, j \in 1..Len(input) :
                (/\ i < j
                 /\ input[i].confidence = input[j].confidence
                 /\ Greater(iou(input[i], input[j]), t)
                 /\ ~ByHigher(i)
                 /\ ~ByEarlierTied(i))
                => (i \in kept /\ j \notin kept)

\* C25 witness: three boxes of the same confidence, the second over the first
\* and the third over the second above the threshold, the third over the first
\* not: NMS retained the first and the third and suppressed the second.
C25_TiedChain ==
    /\ ~panicked
    /\ nmsCall.op = "apply_nms"
    /\ Len(nmsCall.input) = 3
    /\ Len(coll) = 2
    /\ LET a == nmsCall.input[1]
           b == nmsCall.input[2]
           c == nmsCall.input[3]
           t == nmsCall.threshold
       IN  /\ a.confidence = b.confidence /\ b.confidence = c.confidence
           /\ Greater(iou(a, b), t)
           /\ Greater(iou(b, c), t)
           /\ ~Greater(iou(a, c), t)
           /\ coll = <<a, c>>


\* C26: detect_game_state tries the configurations in the order Laplacian +
\* CCoeff, Laplacian + SqDiff, Edge-based and builds the game state from the
\* first whose detection yields at least 3 ring elements, trying none after
\* it; when none does, it builds the game state from the last detection
\* performed, that of the last configuration.
C26_FirstReasonableOrLast ==
    LET n == Len(tried)
    IN  (attempt > 0 /\ stage \in {"built", "build_panicked"}) =>
          /\ n \in 1..Len(configs_to_try)
          /\ \A k \in 1..n :
                /\ tried[k].name = configs_to_try[k].name
                /\ k < n => tried[k].rings \in 0..(ReasonableRing - 1)
          /\ tried[n].rings >= ReasonableRing \/ n = Len(configs_to_try)
          /\ cfg = configs_to_try[n].config
          /\ tried[n].rings = Len(result.ring_elements)
          /\ stage = "built" => game = build_game_state(result, catalog)

\* C27: detect_game_state returns an error only after the detection of every
\* configuration and of the fallback has failed: a configuration whose
\* detection fails is followed by the next one.
C27_ErrorOnlyAfterAllFailed ==
    (attempt > 0 /\ stage = "failed") =>
        /\ Len(tried) = Len(configs_to_try) + 1
        /\ \A k \in 1..Len(tried) : tried[k].rings = -1


\* C28: the statistics of a DetectionResult agree with it: total_detections is
\* the number of all_detections, ring_detections the number of ring elements,
\* player_detections 1 when there is a player atom and 0 when not, and
\* ring_detections + player_detections <= total_detections.
C28_StatsConsistent ==
    LET stats == result.confidence_stats
    IN  stage \in {"detected", "built", "build_panicked"} =>
          /\ stats.total_detections = Len(result.all_detections)
          /\ stats.ring_detections = Len(result.ring_elements)
          /\ stats.player_detections = (IF result.player_atom = <<>> THEN 0 ELSE 1)
          /\ stats.ring_detections + stats.player_detections <= stats.total_detections

\* C29: when several centre candidates share the maximal confidence, the
\* player atom is the one of them that is last in the input list, not the
\* first.
C29_LastOfTiedChosen ==
    LET cands == {i \in 1..Len(pairs) :
                     IsPlayerCandidate(pairs[i].bbox, frame, cfg.center_tolerance)}
        best  == {i \in cands :
                     \A j \in cands : pairs[j].bbox.confidence <= pairs[i].bbox.confidence}
        last  == CHOOSE i \in best : \A j \in best : j <= i
        first == CHOOSE i \in best : \A j \in best : i <= j
    IN  (stage \in {"detected", "built", "build_panicked"} /\ Cardinality(best) >= 2) =>
          /\ result.player_atom = <<pairs[last]>>
          /\ pairs[first] # pairs[last] => result.player_atom # <<pairs[first]>>

\* C29 witness: two different candidates share the maximal confidence and the
\* later of them in the input list is the player atom.
C29_LaterOfTwoIsPlayer ==
    /\ stage = "detected"
    /\ \E i, j \in 1..Len(pairs) :
          /\ i < j
          /\ pairs[i] # pairs[j]
          /\ IsPlayerCandidate(pairs[i].bbox, frame, cfg.center_tolerance)
          /\ IsPlayerCandidate(pairs[j].bbox, frame, cfg.center_tolerance)
          /\ pairs[i].bbox.confidence = pairs[j].bbox.confidence
          /\ \A k \in 1..Len(pairs) :
                IsPlayerCandidate(pairs[k].bbox, frame, cfg.center_tolerance)
                    => pairs[k].bbox.confidence <= pairs[j].bbox.confidence
          /\ \A k \in (j + 1)..Len(pairs) :
                ~IsPlayerCandidate(pairs[k].bbox, frame, cfg.center_tolerance)
          /\ result.player_atom = <<pairs[j]>>


\* C30: an insert or push into a populated list, whatever the index, removes
\* and moves no node: the new node is linked between two nodes that were
\* neighbours, every other link and every value stays, so the old nodes keep
\* their cyclic order; the head becomes the new node when index = 0 and stays
\* otherwise.  An insert into an empty list gives the one-node list whatever
\* the index.
C30_InsertKeepsCyclicOrder ==
    LET b == call.before
        n == Len(b.nodes) + 1
        \* the nodes met from the old head, following next
        Round(nodes, count) == [k \in 1..count |-> Advance(nodes, b.head, k - 1)]
    IN  call.op \in {"insert", "push"} =>
          IF b.head = None
          THEN ring = [head |-> 1, size |-> 1, nodes |-> <<Node(call.value, 1, 1)>>]
          ELSE /\ Len(ring.nodes) = n
               /\ ring.size = b.size + 1
               /\ \A k \in 1..(n - 1) : ring.nodes[k].value = b.nodes[k].value
               /\ \E c \in 1..(n - 1) :
                     LET nx == b.nodes[c].next
                     IN  /\ ring.nodes[n] = Node(call.value, nx, c)
                         /\ ring.nodes[c].next = n
                         /\ ring.nodes[nx].prev = n
                         /\ \A k \in 1..(n - 1) :
                               /\ k # c => ring.nodes[k].next = b.nodes[k].next
                               /\ k # nx => ring.nodes[k].prev = b.nodes[k].prev
               /\ SelectSeq(Round(ring.nodes, n), LAMBDA k : k # n)
                    = Round(b.nodes, n - 1)
               /\ ring.head = IF call.index = 0 THEN n ELSE b.head

\* C30 witness: an insert with an index beyond the size into a list of three
\* different values, which kept its head.
C30_WrappingInsertDone ==
    /\ call.op = "insert"
    /\ call.before.size = 3
    /\ call.index > 3
    /\ Cardinality({call.before.nodes[k].value : k \in 1..3} \cup {call.value}) = 4
    /\ ring.head = call.before.head
    /\ ring.size = 4

====
